---- MODULE Spec2Model ----
(***************************************************************************)
(* Rope simulator (python/taichi/examples/simulation/rope_simulator.py).   *)
(*                                                                         *)
(* Numbers.  The fields are ti.f32.  A float is modelled as a signed       *)
(* fixed-point number: the integer r stands for the real r / SCALE.  Every *)
(* product and quotient is rounded to the nearest representable value, as  *)
(* a float operation is; sums of representable values are exact.  A        *)
(* division by zero yields the non-finite value NaN, which every later     *)
(* operation propagates and every comparison rejects, as IEEE arithmetic   *)
(* does (Taichi kernels do not raise on a float division by zero).         *)
(* Vectors are pairs <<x, y>>.                                             *)
(*                                                                         *)
(* Kernels.  The outermost loops of a Taichi kernel may run their          *)
(* iterations in any order, with atomic += on fields.  The iterations here *)
(* read only positions/velocities, which no iteration of the same loop     *)
(* writes, and the model's additions are exact, so every order gives the   *)
(* same buffer; the segment loop is taken in index order.                  *)
(***************************************************************************)
EXTENDS Integers, Sequences, FiniteSets

VARIABLES
  n_particles,  \* line 7     (configuration, never reassigned)
  stiffness,    \* line 10
  damping,      \* line 11
  positions,    \* line 16    field: particle index -> vector
  velocities,   \* line 17
  forces,       \* line 18
  inv_mass,     \* line 19    field: particle index -> scalar
  running,      \* window.running
  pause,        \* line 92
  pc,           \* position of main(): init, poll, clear, gravity, spring,
                \*   damping, integrate, render, done
  seg,          \* loop index i of the segment loop, line 46
  substep,      \* loop index _ of the substep loop, line 103
  canvas,       \* what the last render drew (positions read at lines 114-120)
  frame,        \* number of frames started (bounded by MaxFrames)
  events,       \* the events the poll returned, until the next step drops them
  calls,        \* history: kernels invoked so far in the current frame
  x0,           \* history: positions when the frame loop was entered
  v0,           \* history: velocities when the frame loop was entered
  nsteps        \* history: number of integrate calls completed

config == <<n_particles, stiffness, damping>>
sim    == <<positions, velocities, forces, inv_mass>>
ctl    == <<running, pause, pc, seg, substep, canvas, frame>>
hist   == <<events, calls, x0, v0, nsteps>>
vars   == <<config, sim, ctl, hist>>

(***************************************************************************)
(* Bounds of the model.                                                    *)
(***************************************************************************)
MaxFrames == 3
MaxEvents == 2
KParticles == 3

(***************************************************************************)
(* Fixed-point arithmetic standing for ti.f32.                             *)
(***************************************************************************)
SCALE == 10000

NaN == 0 - 2000000000

Abs(a) == IF a < 0 THEN 0 - a ELSE a

Sgn(a) == IF a < 0 THEN 0 - 1 ELSE 1

\* a / b for a >= 0, b > 0, rounded to nearest (halves away from zero)
RoundDiv(a, b) ==
  LET q == a \div b
      r == a % b
  IN IF 2 * r >= b THEN q + 1 ELSE q

\* the float literal num/den
F(num, den) == Sgn(num) * RoundDiv(Abs(num) * SCALE, den)

IsNum(a) == a # NaN

Add(a, b) == IF IsNum(a) /\ IsNum(b) THEN a + b ELSE NaN

Sub(a, b) == IF IsNum(a) /\ IsNum(b) THEN a - b ELSE NaN

\* a * b / SCALE for a, b >= 0, rounded to nearest; the product is taken in
\* halves so that no intermediate value leaves the machine integers
MulAbs(a, b) ==
  LET ah == a \div SCALE
      al == a % SCALE
      bh == b \div SCALE
      bl == b % SCALE
  IN ah * bh * SCALE + ah * bl + al * bh + RoundDiv(al * bl, SCALE)

Mul(a, b) ==
  IF IsNum(a) /\ IsNum(b)
  THEN Sgn(a) * Sgn(b) * MulAbs(Abs(a), Abs(b))
  ELSE NaN

Div(a, b) ==
  IF IsNum(a) /\ IsNum(b) /\ b # 0
  THEN Sgn(a) * Sgn(b) * RoundDiv(Abs(a) * SCALE, Abs(b))
  ELSE NaN

Gt(a, b) == IsNum(a) /\ IsNum(b) /\ a > b

RECURSIVE FloorSqrt(_, _, _)
\* the largest r in lo..hi with r * r <= n
FloorSqrt(n, lo, hi) ==
  IF lo >= hi THEN lo
  ELSE LET mid == (lo + hi + 1) \div 2
       IN IF mid * mid <= n THEN FloorSqrt(n, mid, hi)
          ELSE FloorSqrt(n, lo, mid - 1)

\* sqrt(n) rounded to nearest, n >= 0
RoundSqrt(n) ==
  LET r == FloorSqrt(n, 0, 46340)
  IN IF n - r * r > r THEN r + 1 ELSE r

Zero2 == <<0, 0>>

VAdd(a, b) == <<Add(a[1], b[1]), Add(a[2], b[2])>>

VSub(a, b) == <<Sub(a[1], b[1]), Sub(a[2], b[2])>>

VMulS(v, s) == <<Mul(v[1], s), Mul(v[2], s)>>

VDivS(v, s) == <<Div(v[1], s), Div(v[2], s)>>

Dot(a, b) == Add(Mul(a[1], b[1]), Mul(a[2], b[2]))

\* v.norm(): sqrt(x^2 + y^2).  In raw units sqrt((x^2 + y^2) / SCALE^2) * SCALE
\* = sqrt(x^2 + y^2), rounded once.
Norm(v) ==
  IF IsNum(v[1]) /\ IsNum(v[2])
  THEN RoundSqrt(v[1] * v[1] + v[2] * v[2])
  ELSE NaN

(***************************************************************************)
(* Global simulation parameters, lines 7-14, and literals of the kernels.  *)
(***************************************************************************)
n_segments == n_particles - 1

particle_mass == F(1, 1)

rest_length == F(1, 10)

gravity == <<0, F(0 - 981, 100)>>

dt == F(5, 10000)

start_pos == <<F(1, 10), F(8, 10)>>

epsilon == F(1, 1000000)

\* mutant: one substep short
substeps_per_frame_short == 10 - 1

\* line 103
substeps_per_frame == 10

Particles == 0 .. (n_particles - 1)

(***************************************************************************)
(* initialize_particles, lines 21-32.                                      *)
(***************************************************************************)
initial_position(i) == VAdd(start_pos, <<Mul(i * SCALE, rest_length), 0>>)

\* mutant: particle 0 is given a mass like the others
initial_inv_mass_unpinned(i) == Div(F(1, 1), particle_mass)

initial_inv_mass(i) == IF i = 0 THEN 0 ELSE Div(F(1, 1), particle_mass)

(***************************************************************************)
(* compute_forces, lines 34-77.                                            *)
(***************************************************************************)
\* mutant: the buffer is not cleared
clear_forces_keep(f) == f

\* lines 37-38
clear_forces(f) == [i \in DOMAIN f |-> Zero2]

\* line 42
is_free(i) == Gt(inv_mass[i], 0)

\* lines 41-43
add_gravity(f) ==
  [i \in DOMAIN f |->
     IF is_free(i) THEN VAdd(f[i], VMulS(gravity, particle_mass)) ELSE f[i]]

\* lines 50-54, segment (i, i + 1)
dist_vec(i) == VSub(positions[i + 1], positions[i])

current_length(i) == Norm(dist_vec(i))

\* mutant: the length test is missing
nondegenerate_unguarded(i) == TRUE

\* line 56
nondegenerate(i) == Gt(current_length(i), epsilon)

\* line 57
direction_vec(i) == VDivS(dist_vec(i), current_length(i))

\* lines 60-61
spring_force_vec(i) ==
  VMulS(direction_vec(i), Mul(stiffness, Sub(current_length(i), rest_length)))

\* mutant: the two endpoints are exchanged
add_spring_swapped(f, i) ==
  IF nondegenerate(i)
  THEN [f EXCEPT ![i]     = VSub(f[i], spring_force_vec(i)),
                 ![i + 1] = VAdd(f[i + 1], spring_force_vec(i))]
  ELSE f

\* lines 56-64
add_spring(f, i) ==
  IF nondegenerate(i)
  THEN [f EXCEPT ![i]     = VAdd(f[i], spring_force_vec(i)),
                 ![i + 1] = VSub(f[i + 1], spring_force_vec(i))]
  ELSE f

\* lines 67-74
damping_force_vec(i) ==
  LET relative_velocity == VSub(velocities[i + 1], velocities[i])
      projected_relative_velocity == Dot(relative_velocity, direction_vec(i))
  IN VMulS(direction_vec(i), Mul(damping, projected_relative_velocity))

\* mutant: the two endpoints are exchanged
add_damping_swapped(f, i) ==
  IF nondegenerate(i)
  THEN [f EXCEPT ![i]     = VSub(f[i], damping_force_vec(i)),
                 ![i + 1] = VAdd(f[i + 1], damping_force_vec(i))]
  ELSE f

\* mutant: the reaction on particle i + 1 is forgotten
add_damping_one_sided(f, i) ==
  IF nondegenerate(i)
  THEN [f EXCEPT ![i] = VAdd(f[i], damping_force_vec(i))]
  ELSE f

\* lines 56, 66-77
add_damping(f, i) ==
  IF nondegenerate(i)
  THEN [f EXCEPT ![i]     = VAdd(f[i], damping_force_vec(i)),
                 ![i + 1] = VSub(f[i + 1], damping_force_vec(i))]
  ELSE f

(***************************************************************************)
(* integrate, lines 79-84.                                                 *)
(***************************************************************************)
\* line 83
new_velocity(i) ==
  VAdd(velocities[i], VMulS(VMulS(forces[i], inv_mass[i]), dt))

\* mutant: explicit Euler, the position advances by the old velocity
new_position_explicit(i) == VAdd(positions[i], VMulS(velocities[i], dt))

\* line 84: reads the velocity line 83 has just written
new_position(i) == VAdd(positions[i], VMulS(new_velocity(i), dt))

(***************************************************************************)
(* main, lines 86-122.                                                     *)
(***************************************************************************)
Keys == {"ESCAPE", "SPACE", "OTHER"}

EventSeqs == UNION {[1 .. k -> Keys] : k \in 0 .. MaxEvents}

RECURSIVE handle_events_break(_, _, _)
\* mutant: the event loop stops at ESCAPE
handle_events_break(evs, r, p) ==
  IF evs = <<>> THEN <<r, p>>
  ELSE IF Head(evs) = "ESCAPE" THEN <<FALSE, p>>
  ELSE IF Head(evs) = "SPACE" THEN handle_events_break(Tail(evs), r, ~p)
  ELSE handle_events_break(Tail(evs), r, p)

RECURSIVE handle_events(_, _, _)
\* lines 96-100: the state <<window.running, pause>> after the events
handle_events(evs, r, p) ==
  IF evs = <<>> THEN <<r, p>>
  ELSE IF Head(evs) = "ESCAPE" THEN handle_events(Tail(evs), FALSE, p)
  ELSE IF Head(evs) = "SPACE" THEN handle_events(Tail(evs), r, ~p)
  ELSE handle_events(Tail(evs), r, p)

\* mutant: the pause flag is not consulted
should_step_always(p) == TRUE

\* line 102
should_step(p) == ~p

\* line 94: the loop test, taken after window.show()
loop_pc(r) == IF r THEN "poll" ELSE "done"

\* state after the module is loaded: the fields are allocated zero-filled
Init ==
  /\ n_particles = 15
  /\ stiffness = F(10000, 1)
  /\ damping = F(5, 10)
  /\ positions = [i \in Particles |-> Zero2]
  /\ velocities = [i \in Particles |-> Zero2]
  /\ forces = [i \in Particles |-> Zero2]
  /\ inv_mass = [i \in Particles |-> 0]
  /\ running = FALSE
  /\ pause = FALSE
  /\ pc = "init"
  /\ seg = 0
  /\ substep = 0
  /\ canvas = <<>>
  /\ frame = 0
  /\ events = <<>>
  /\ calls = <<>>
  /\ x0 = positions
  /\ v0 = velocities
  /\ nsteps = 0

\* lines 87-92: initialize_particles(), the window, pause = False
main_start ==
  /\ pc = "init"
  /\ positions' = [i \in Particles |-> initial_position(i)]
  /\ velocities' = [i \in Particles |-> Zero2]
  /\ inv_mass' = [i \in Particles |-> initial_inv_mass(i)]
  /\ running' = TRUE
  /\ pause' = FALSE
  /\ pc' = loop_pc(running')
  /\ x0' = positions'
  /\ v0' = velocities'
  /\ UNCHANGED <<config, forces, seg, substep, canvas, frame, events, calls, nsteps>>

\* lines 94-103: one poll of the events, then the choice of line 102
poll_events ==
  /\ pc = "poll"
  /\ frame < MaxFrames
  /\ \E evs \in EventSeqs :
       LET st == handle_events(evs, running, pause)
       IN /\ events' = evs
          /\ running' = st[1]
          /\ pause' = st[2]
  /\ pc' = IF should_step(pause') THEN "clear" ELSE "render"
  /\ substep' = 0
  /\ frame' = frame + 1
  /\ calls' = <<>>
  /\ UNCHANGED <<config, sim, seg, canvas, x0, v0, nsteps>>

\* lines 104, 37-38
cf_clear ==
  /\ pc = "clear"
  /\ forces' = clear_forces(forces)
  /\ calls' = Append(calls, "compute_forces")
  /\ events' = <<>>
  /\ pc' = "gravity"
  /\ UNCHANGED <<config, positions, velocities, inv_mass, running, pause, seg,
                 substep, canvas, frame, x0, v0, nsteps>>

\* lines 41-43, and the entry of the segment loop, line 46
cf_gravity ==
  /\ pc = "gravity"
  /\ forces' = add_gravity(forces)
  /\ seg' = 0
  /\ pc' = IF 0 < n_segments THEN "spring" ELSE "integrate"
  /\ UNCHANGED <<config, positions, velocities, inv_mass, running, pause,
                 substep, canvas, frame, hist>>

\* lines 47-64 for segment seg
cf_spring ==
  /\ pc = "spring"
  /\ forces' = add_spring(forces, seg)
  /\ pc' = "damping"
  /\ UNCHANGED <<config, positions, velocities, inv_mass, running, pause, seg,
                 substep, canvas, frame, hist>>

\* lines 66-77 for segment seg, and the step of the loop, line 46
cf_damping ==
  /\ pc = "damping"
  /\ forces' = add_damping(forces, seg)
  /\ seg' = seg + 1
  /\ pc' = IF seg' < n_segments THEN "spring" ELSE "integrate"
  /\ UNCHANGED <<config, positions, velocities, inv_mass, running, pause,
                 substep, canvas, frame, hist>>

\* lines 105, 81-84, and the step of the substep loop, line 103
integrate ==
  /\ pc = "integrate"
  /\ velocities' = [i \in Particles |->
                      IF is_free(i) THEN new_velocity(i) ELSE velocities[i]]
  /\ positions' = [i \in Particles |->
                     IF is_free(i) THEN new_position(i) ELSE positions[i]]
  /\ calls' = Append(calls, "integrate")
  /\ nsteps' = nsteps + 1
  /\ substep' = substep + 1
  /\ pc' = IF substep' < substeps_per_frame THEN "clear" ELSE "render"
  /\ UNCHANGED <<config, forces, inv_mass, running, pause, seg, canvas, frame,
                 events, x0, v0>>

\* lines 114-122: draw the segments and the particles, show, test the loop
render ==
  /\ pc = "render"
  /\ canvas' = positions
  /\ pc' = loop_pc(running)
  /\ events' = <<>>
  /\ UNCHANGED <<config, sim, running, pause, seg, substep, frame, calls, x0, v0,
                 nsteps>>

FrameStep ==
  \/ poll_events
  \/ cf_clear
  \/ cf_gravity
  \/ cf_spring
  \/ cf_damping
  \/ integrate
  \/ render

Next == main_start \/ FrameStep

Spec == Init /\ [][Next]_vars

(***************************************************************************)
(* The kernels on arbitrary states.  SpecK enters the frame loop in a      *)
(* state drawn from small sets instead of the straight rope at rest: the   *)
(* pinned particle is where initialize_particles puts it, every other      *)
(* particle sits at an offset from its predecessor (coincident with it, or *)
(* 0.5 away along a 3-4-5 direction) and has a velocity of its own, the    *)
(* force buffer holds zeros or leftovers, and the springs are the          *)
(* program's or switched off (stiffness = damping = 0).                    *)
(***************************************************************************)
KOffsets == {Zero2, <<F(3, 10), F(0 - 4, 10)>>}

KVelocities == {Zero2, <<F(1, 1), F(0 - 2, 1)>>}

KForces == {Zero2, <<F(3, 1), F(0 - 7, 1)>>}

KSprings == {<<F(10000, 1), F(5, 10)>>, <<0, 0>>}

RECURSIVE chain_position(_, _)
chain_position(offs, i) ==
  IF i = 0 THEN start_pos ELSE VAdd(chain_position(offs, i - 1), offs[i])

InitK ==
  /\ n_particles = KParticles
  /\ \E k \in KSprings : stiffness = k[1] /\ damping = k[2]
  /\ \E offs \in [1 .. (KParticles - 1) -> KOffsets] :
       positions = [i \in Particles |-> chain_position(offs, i)]
  /\ \E vs \in [1 .. (KParticles - 1) -> KVelocities] :
       velocities = [i \in Particles |-> IF i = 0 THEN Zero2 ELSE vs[i]]
  /\ \E jf \in KForces : forces = [i \in Particles |-> jf]
  /\ inv_mass = [i \in Particles |-> initial_inv_mass(i)]
  /\ running = TRUE
  /\ pause = FALSE
  /\ pc = "poll"
  /\ seg = 0
  /\ substep = 0
  /\ canvas = <<>>
  /\ frame = 0
  /\ events = <<>>
  /\ calls = <<>>
  /\ x0 = positions
  /\ v0 = velocities
  /\ nsteps = 0

SpecK == InitK /\ [][FrameStep]_vars

(***************************************************************************)
(* Expressions the properties are stated with, written from the positions  *)
(* and velocities alone.                                                   *)
(***************************************************************************)
VNeg(v) == VSub(Zero2, v)

SegLength(i) == Norm(VSub(positions[i + 1], positions[i]))

\* u: the unit direction from particle i to particle i + 1
UnitDir(i) == VDivS(VSub(positions[i + 1], positions[i]), SegLength(i))

\* u * stiffness * (L - rest_length)
SpringTerm(i) ==
  VMulS(UnitDir(i), Mul(stiffness, Sub(SegLength(i), rest_length)))

\* u * damping * (v_rel . u)
DampingTerm(i) ==
  VMulS(UnitDir(i),
        Mul(damping, Dot(VSub(velocities[i + 1], velocities[i]), UnitDir(i))))

\* the internal force segment (i, i + 1) exerts on particle i
SegmentTerm(i) ==
  IF SegLength(i) > epsilon THEN VAdd(SpringTerm(i), DampingTerm(i)) ELSE Zero2

GravityTerm(j) ==
  IF inv_mass[j] # 0 THEN VMulS(gravity, particle_mass) ELSE Zero2

ExpectedForce(j) ==
  VSub(VAdd(GravityTerm(j),
            IF j < n_particles - 1 THEN SegmentTerm(j) ELSE Zero2),
       IF j > 0 THEN SegmentTerm(j - 1) ELSE Zero2)

RECURSIVE VSum(_, _)
\* f[0] + ... + f[j]
VSum(f, j) == IF j < 0 THEN Zero2 ELSE VAdd(VSum(f, j - 1), f[j])

Finite(f) == \A j \in DOMAIN f : IsNum(f[j][1]) /\ IsNum(f[j][2])

TenPairs ==
  [k \in 1 .. 20 |-> IF k % 2 = 1 THEN "compute_forces" ELSE "integrate"]

IsPrefix(s, t) == Len(s) <= Len(t) /\ \A k \in 1 .. Len(s) : s[k] = t[k]

CountSpace(evs) == Cardinality({k \in 1 .. Len(evs) : evs[k] = "SPACE"})

SawEscape(evs) == \E k \in 1 .. Len(evs) : evs[k] = "ESCAPE"

RECURSIVE FallDistance(_)
\* sum over substeps 1..k of (velocity after the substep) * dt, for a fall from rest
FallDistance(k) ==
  IF k = 0 THEN Zero2
  ELSE VAdd(FallDistance(k - 1), VMulS(<<0, k * Mul(gravity[2], dt)>>, dt))

(***************************************************************************)
(* C1.  Once initialize_particles has run, particle 0 keeps the position   *)
(* and the velocity it was given and its inverse mass stays 0, at every    *)
(* point of every frame.                                                   *)
(***************************************************************************)
C1_PinInvariant ==
  pc # "init" =>
    /\ positions[0] = x0[0]
    /\ positions[0] = start_pos
    /\ velocities[0] = Zero2
    /\ inv_mass[0] = 0

C1_Witness ==
  /\ pc = "render"
  /\ nsteps = 3 * substeps_per_frame
  /\ positions[0] = start_pos
  /\ \A i \in 1 .. (n_particles - 1) : positions[i] # x0[i]
  /\ forces[0] # Zero2

(***************************************************************************)
(* C2 as stated.  On a segment longer than 1e-6 the spring step adds       *)
(* u * stiffness * (L - rest_length) to particle i + 1 and subtracts it    *)
(* from particle i.                                                        *)
(***************************************************************************)
C2_SpringAsClaimed ==
  [][(pc = "spring" /\ SegLength(seg) > epsilon) =>
       /\ forces'[seg + 1] = VAdd(forces[seg + 1], SpringTerm(seg))
       /\ forces'[seg] = VSub(forces[seg], SpringTerm(seg))]_vars

(***************************************************************************)
(* C2 amended.  On a segment longer than 1e-6 the spring step adds         *)
(* u * stiffness * (L - rest_length) to particle i and subtracts it from   *)
(* particle i + 1, and touches no other accumulator.                       *)
(***************************************************************************)
C2_SpringPullsTogether ==
  [][(pc = "spring" /\ SegLength(seg) > epsilon) =>
       /\ forces'[seg] = VAdd(forces[seg], SpringTerm(seg))
       /\ forces'[seg + 1] = VSub(forces[seg + 1], SpringTerm(seg))
       /\ \A j \in Particles \ {seg, seg + 1} : forces'[j] = forces[j]]_vars

C2_Witness ==
  /\ pc = "damping"
  /\ SegLength(seg) > epsilon
  /\ SpringTerm(seg) # Zero2
  /\ seg = 1
  /\ forces[seg + 1] = VSub(VMulS(gravity, particle_mass), SpringTerm(seg))

(***************************************************************************)
(* C3 as stated.  On a segment longer than 1e-6 the damping step adds      *)
(* u * damping * (v_rel . u) to particle i + 1 and subtracts it from       *)
(* particle i.                                                             *)
(***************************************************************************)
C3_DampingAsClaimed ==
  [][(pc = "damping" /\ SegLength(seg) > epsilon) =>
       /\ forces'[seg + 1] = VAdd(forces[seg + 1], DampingTerm(seg))
       /\ forces'[seg] = VSub(forces[seg], DampingTerm(seg))]_vars

(***************************************************************************)
(* C3 amended.  On a segment longer than 1e-6 the damping step adds        *)
(* u * damping * (v_rel . u) to particle i and subtracts it from particle  *)
(* i + 1, and touches no other accumulator.                                *)
(***************************************************************************)
C3_DampingOpposesSeparation ==
  [][(pc = "damping" /\ SegLength(seg) > epsilon) =>
       /\ forces'[seg] = VAdd(forces[seg], DampingTerm(seg))
       /\ forces'[seg + 1] = VSub(forces[seg + 1], DampingTerm(seg))
       /\ \A j \in Particles \ {seg, seg + 1} : forces'[j] = forces[j]]_vars

C3_Witness ==
  /\ pc = "integrate"
  /\ seg = n_particles - 1
  /\ SegLength(seg - 1) > epsilon
  /\ DampingTerm(seg - 1) # Zero2
  /\ forces[seg] =
       VSub(VMulS(gravity, particle_mass),
            VAdd(SpringTerm(seg - 1), DampingTerm(seg - 1)))

(***************************************************************************)
(* C4.  On a segment longer than 1e-6 what the spring step and the damping *)
(* step add to particle i is the negation of what they add to particle     *)
(* i + 1, and when compute_forces returns the forces of all particles sum  *)
(* to gravity * particle_mass times the number of particles with non-zero  *)
(* inverse mass.                                                           *)
(***************************************************************************)
C4_MomentumPairing ==
  [][/\ (pc \in {"spring", "damping"} /\ SegLength(seg) > epsilon) =>
          VSub(forces'[seg], forces[seg])
            = VNeg(VSub(forces'[seg + 1], forces[seg + 1]))
     /\ (pc # "integrate" /\ pc' = "integrate") =>
          VSum(forces', n_particles - 1)
            = VSum([j \in Particles |-> GravityTerm(j)], n_particles - 1)]_vars

C4_Witness ==
  /\ pc = "integrate"
  /\ \A i \in 0 .. (n_particles - 2) :
       /\ SegLength(i) > epsilon
       /\ SpringTerm(i) # Zero2
       /\ DampingTerm(i) # Zero2
  /\ forces[0] # Zero2
  /\ VSum(forces, n_particles - 1)
       = <<0, (n_particles - 1) * Mul(gravity[2], particle_mass)>>

(***************************************************************************)
(* C5.  On a segment whose length is at most 1e-6 the spring step and the  *)
(* damping step leave every force accumulator as it was, whatever the      *)
(* velocities, produce no non-finite value, and the kernel goes on to the  *)
(* next segment (or returns after the last).                               *)
(***************************************************************************)
C5_DegenerateSegmentSkipped ==
  [][(pc \in {"spring", "damping"} /\ SegLength(seg) <= epsilon) =>
       /\ forces' = forces
       /\ Finite(forces')
       /\ pc = "spring" => (pc' = "damping" /\ seg' = seg)
       /\ pc = "damping" =>
            /\ seg' = seg + 1
            /\ pc' = IF seg + 1 < n_particles - 1 THEN "spring" ELSE "integrate"]_vars

C5_Witness ==
  /\ pc = "integrate"
  /\ stiffness # 0
  /\ SegLength(0) = 0
  /\ velocities[1] # velocities[0]
  /\ SegLength(1) > epsilon
  /\ forces[0] = Zero2
  /\ forces[1] = VAdd(VMulS(gravity, particle_mass), SegmentTerm(1))
  /\ SegmentTerm(1) # Zero2

(***************************************************************************)
(* C6.  Every step taken while the pause flag is (or becomes) true belongs *)
(* to a paused frame: it enters no kernel and leaves positions,            *)
(* velocities, forces and inverse masses unchanged.                        *)
(***************************************************************************)
C6_PausedFrameNoChange ==
  [][pause' =>
       /\ pc' \in {"poll", "render", "done"}
       /\ UNCHANGED <<positions, velocities, forces, inv_mass>>]_vars

C6_Witness ==
  /\ pause
  /\ pc = "poll"
  /\ frame = 3
  /\ nsteps = substeps_per_frame
  /\ canvas = positions
  /\ positions[0] = start_pos

(***************************************************************************)
(* C7.  Within a frame the kernels are invoked compute_forces, integrate,  *)
(* compute_forces, integrate, ...; integrate is entered only right after a *)
(* compute_forces; and the render step of a frame that is not paused is    *)
(* reached only after exactly 10 such pairs (none in a paused frame), and  *)
(* draws the positions they left.                                          *)
(***************************************************************************)
C7_TenAlternatingSubsteps ==
  /\ IsPrefix(calls, TenPairs)
  /\ pc = "integrate" => Len(calls) % 2 = 1
  /\ pc \in {"clear", "render"} => Len(calls) % 2 = 0
  /\ pc = "render" => calls = (IF pause THEN <<>> ELSE TenPairs)
  /\ (pc \in {"poll", "done"} /\ frame > 0) => canvas = positions

C7_Witness ==
  /\ pc = "poll"
  /\ ~pause
  /\ frame = 2
  /\ calls = TenPairs
  /\ nsteps = 20
  /\ canvas = positions

(***************************************************************************)
(* C8.  integrate gives every particle with non-zero inverse mass the      *)
(* velocity v + force * inverse_mass * dt and then the position            *)
(* x + (that new velocity) * dt, and leaves the others alone.  So with     *)
(* stiffness = damping = 0 a free particle that started at rest has, after *)
(* k integrate calls, the velocity k * gravity * dt and the position       *)
(* x0 + sum over j = 1..k of (j * gravity * dt) * dt.                      *)
(***************************************************************************)
C8_SemiImplicitEuler ==
  [][/\ pc = "integrate" =>
          \A i \in Particles :
            IF inv_mass[i] # 0
            THEN /\ velocities'[i] =
                      VAdd(velocities[i],
                           VMulS(VMulS(forces[i], inv_mass[i]), dt))
                 /\ positions'[i] = VAdd(positions[i], VMulS(velocities'[i], dt))
            ELSE velocities'[i] = velocities[i] /\ positions'[i] = positions[i]
     /\ (stiffness' = 0 /\ damping' = 0) =>
          \A i \in Particles :
            (inv_mass'[i] # 0 /\ v0'[i] = Zero2) =>
              /\ velocities'[i] = <<0, nsteps' * Mul(gravity[2], dt)>>
              /\ positions'[i] = VAdd(x0'[i], FallDistance(nsteps'))]_vars

C8_Witness ==
  /\ stiffness = 0
  /\ damping = 0
  /\ nsteps = 3 * substeps_per_frame
  /\ v0[1] = Zero2
  /\ v0[2] # Zero2
  /\ velocities[1] = <<0, 30 * Mul(gravity[2], dt)>>
  /\ positions[1] = VAdd(x0[1], FallDistance(30))
  /\ positions[1] # VAdd(x0[1], FallDistance(29))

(***************************************************************************)
(* C9.  When compute_forces returns, every accumulator holds the gravity   *)
(* term of its particle (none for a particle of inverse mass 0) plus the   *)
(* internal forces of the segments at the particle, all computed from the  *)
(* current positions and velocities: nothing of what the buffer held       *)
(* before is left, and the pinned particle holds the internal force of     *)
(* segment (0, 1) alone.                                                   *)
(***************************************************************************)
C9_ForcesFromScratch ==
  pc = "integrate" =>
    /\ \A j \in Particles : forces[j] = ExpectedForce(j)
    /\ forces[0] = SegmentTerm(0)

C9_Witness ==
  /\ pc = "integrate"
  /\ nsteps = 1
  /\ SegmentTerm(0) # Zero2
  /\ forces[0] = SegmentTerm(0)
  /\ forces[1] # VMulS(gravity, particle_mass)
  /\ positions # x0

(***************************************************************************)
(* C10.  window.running and pause change only in the poll at the start of  *)
(* a frame.  The poll clears running exactly if it saw ESCAPE and flips    *)
(* pause exactly if it saw an odd number of SPACE presses, and the flipped *)
(* flag decides whether this same frame steps.  The frame whose poll saw   *)
(* ESCAPE still runs its 10 substeps when not paused and renders, and then *)
(* the loop ends: no later frame, and no later substep, is started.        *)
(***************************************************************************)
C10_EventsAtFrameStart ==
  [][/\ (pc = "poll" /\ pc' # "poll") =>
          /\ running' = (running /\ ~SawEscape(events'))
          /\ pause' = (pause # (CountSpace(events') % 2 = 1))
          /\ pc' = (IF pause' THEN "render" ELSE "clear")
     /\ (pc \notin {"poll", "init"}) => (running' = running /\ pause' = pause)
     /\ (pc = "render" /\ ~running) =>
          /\ pc' = "done"
          /\ calls = (IF pause THEN <<>> ELSE TenPairs)
     /\ (pc # "init" /\ ~running) => (frame' = frame /\ nsteps' <= 10 * frame)
     /\ pc = "done" => pc' = "done"]_vars

C10_Witness ==
  /\ pc = "done"
  /\ ~running
  /\ ~pause
  /\ frame = 2
  /\ nsteps = 10
  /\ calls = TenPairs
  /\ canvas = positions

====
